---------------------------- MODULE Spec2Model ----------------------------
(***************************************************************************)
(* Model of gene_cascade.py: the depth-bounded weighted-walk accumulator   *)
(* get_total_influence and the perturbation engine compute_gene_effect.    *)
(*                                                                         *)
(* Python floats are modelled as exact rationals <<n, d>> in lowest terms  *)
(* (d > 0), so every sum and product below is the real-number value of the *)
(* corresponding Python expression.  igraph vertex indices are modelled as *)
(* positions 1..n in the vertex sequence G.vs (igraph counts from 0).      *)
(***************************************************************************)
EXTENDS Integers, Sequences, FiniteSets, TLC

VARIABLES
    edge_list,        \* compute_gene_effect argument: sequence of <<source, target, weight>>
    initial_levels,   \* compute_gene_effect argument: function name -> level (a dict)
    source_gene,      \* compute_gene_effect argument
    modified_level,   \* compute_gene_effect argument
    max_depth,        \* max_depth argument of either function
    all_gene_names,   \* local of compute_gene_effect
    G,                \* the igraph object: [vs |-> names, es |-> edges over indices]
    initial_shock,    \* local of compute_gene_effect
    new_levels,       \* local of compute_gene_effect, the returned dict
    source_vid,       \* local of compute_gene_effect
    todo,             \* names the for loop of compute_gene_effect has not visited yet
    error,            \* the exception that left compute_gene_effect, or "none"
    current_gene,     \* get_total_influence argument of the top-level call
    target_gene,      \* get_total_influence argument
    influence,        \* depth sweep: max_depth -> value returned by get_total_influence
    stack,            \* call stack of get_total_influence, innermost frame last
    result,           \* value returned by the top-level get_total_influence call
    pc                \* position of the running function

vars == <<edge_list, initial_levels, source_gene, modified_level, max_depth,
          all_gene_names, G, initial_shock, new_levels, source_vid, todo, error,
          current_gene, target_gene, influence, stack, result, pc>>

--------------------------------------------------------------------------
(* Bounds of the explored inputs. *)

\* largest max_depth explored for get_total_influence
MaxDepth == 4

\* largest max_depth explored for compute_gene_effect
MaxCallDepth == 2

\* most edges in an explored edge_list of compute_gene_effect
MaxEdges == 2

\* most edges in an explored graph of get_total_influence
MaxGraphEdges == 3

\* largest max_depth explored for the call stack of get_total_influence
MaxRecDepth == 4

--------------------------------------------------------------------------
(* Exact arithmetic standing for Python float arithmetic. *)

Abs(n) == IF n < 0 THEN -n ELSE n

RECURSIVE GCD(_, _)
GCD(a, b) == IF b = 0 THEN a ELSE GCD(b, a % b)

Norm(n, d) ==
    LET g == GCD(Abs(n), d)
    IN  <<n \div g, d \div g>>

Zero == <<0, 1>>
One == <<1, 1>>

RAdd(x, y) == Norm(x[1] * y[2] + y[1] * x[2], x[2] * y[2])
RSub(x, y) == Norm(x[1] * y[2] - y[1] * x[2], x[2] * y[2])
RMul(x, y) == Norm(x[1] * y[1], x[2] * y[2])
RLeq(x, y) == x[1] * y[2] <= y[1] * x[2]
RLess(x, y) == x[1] * y[2] < y[1] * x[2]

--------------------------------------------------------------------------
(* The igraph object. *)

\* no index: G.vs.find found no vertex of that name
NoVertex == 0

RECURSIVE SetToSeq(_)
\* iteration of a Python set: some fixed order of its elements
SetToSeq(S) ==
    IF S = {} THEN <<>>
    ELSE LET x == CHOOSE y \in S : TRUE
         IN  <<x>> \o SetToSeq(S \ {x})

\* G.vs.find(name=...).index, NoVertex when igraph raises ValueError (no such vertex)
VsFind(g, name) ==
    IF \E i \in DOMAIN g.vs : g.vs[i] = name
    THEN CHOOSE i \in DOMAIN g.vs : g.vs[i] = name
    ELSE NoVertex

\* ig.Graph.DictList(vertices, edges, directed=True): edges resolved to vertex indices
DictList(vertex_names, edges) ==
    LET g0 == [vs |-> vertex_names, es |-> <<>>]
    IN  [vs |-> vertex_names,
         es |-> [i \in DOMAIN edges |->
                    [source |-> VsFind(g0, edges[i][1]),
                     target |-> VsFind(g0, edges[i][2]),
                     weight |-> edges[i][3]]]]

EdgeIds(g, v, u) ==
    {i \in DOMAIN g.es : g.es[i].source = v /\ g.es[i].target = u}

\* G.get_eid(v, u): the id of an edge from v to u
get_eid(g, v, u) ==
    CHOOSE i \in EdgeIds(g, v, u) : \A j \in EdgeIds(g, v, u) : i <= j

RECURSIVE SuccessorsFrom(_, _, _)
SuccessorsFrom(g, v, u) ==
    IF u > Len(g.vs) THEN <<>>
    ELSE [i \in 1..Cardinality(EdgeIds(g, v, u)) |-> u] \o SuccessorsFrom(g, v, u + 1)

\* G.successors(v): the targets of the edges leaving v, one entry per edge, by index
successors(g, v) == SuccessorsFrom(g, v, 1)

--------------------------------------------------------------------------
(* get_total_influence as a recursive function. *)

\* the test written one level late: the recursion goes one call deeper
DepthExhaustedLate(current_depth, maxd) == current_depth > maxd + 1

\* the test written with >=: the walks of length max_depth are lost
DepthExhaustedEarly(current_depth, maxd) == current_depth >= maxd

\* line 23: the depth-exhaustion test
DepthExhausted(current_depth, maxd) == current_depth > maxd

\* the path product is summed instead of multiplied
NewPathProductSum(current_path_product, weight) == RAdd(current_path_product, weight)

\* line 35
NewPathProduct(current_path_product, weight) == RMul(current_path_product, weight)

\* lines 37-39: what reaching neighbor_gene adds to total_influence
TargetHit(neighbor_gene, target, new_path_product) ==
    IF neighbor_gene = target THEN new_path_product ELSE Zero

\* the value of the recursive call is subtracted
SubtractDeeper(total_influence, deeper) == RSub(total_influence, deeper)

\* line 41: total_influence += get_total_influence(...)
AddDeeper(total_influence, deeper) == RAdd(total_influence, deeper)

RECURSIVE get_total_influence(_, _, _, _, _, _)
RECURSIVE InfluenceLoop(_, _, _, _, _, _, _)

\* the recursion is an else branch of the target test: walks stop at the target
InfluenceLoopStopAtTarget(g, cur, target, current_path_product, maxd, current_depth, nbrs) ==
    IF nbrs = <<>> THEN Zero
    ELSE LET neighbor_gene == Head(nbrs)
             weight == g.es[get_eid(g, cur, neighbor_gene)].weight
             new_path_product == NewPathProduct(current_path_product, weight)
         IN  RAdd(IF neighbor_gene = target THEN new_path_product
                  ELSE get_total_influence(g, neighbor_gene, target, new_path_product,
                                           maxd, current_depth + 1),
                  InfluenceLoop(g, cur, target, current_path_product, maxd,
                                current_depth, Tail(nbrs)))

\* lines 29-48: the for loop over the successors nbrs still to visit
InfluenceLoop(g, cur, target, current_path_product, maxd, current_depth, nbrs) ==
    IF nbrs = <<>> THEN Zero
    ELSE LET neighbor_gene == Head(nbrs)
             weight == g.es[get_eid(g, cur, neighbor_gene)].weight
             new_path_product == NewPathProduct(current_path_product, weight)
         IN  RAdd(AddDeeper(TargetHit(neighbor_gene, target, new_path_product),
                            get_total_influence(g, neighbor_gene, target,
                                                new_path_product, maxd,
                                                current_depth + 1)),
                  InfluenceLoop(g, cur, target, current_path_product, maxd,
                                current_depth, Tail(nbrs)))

\* lines 8-50
get_total_influence(g, cur, target, current_path_product, maxd, current_depth) ==
    IF DepthExhausted(current_depth, maxd) THEN Zero
    ELSE InfluenceLoop(g, cur, target, current_path_product, maxd, current_depth,
                       successors(g, cur))

--------------------------------------------------------------------------
(* The explored inputs. *)

GeneOrder == <<"1", "2", "3">>
Genes == {GeneOrder[i] : i \in DOMAIN GeneOrder}
GeneIndex(name) == CHOOSE i \in DOMAIN GeneOrder : GeneOrder[i] = name

Weights == {<<-1, 2>>, <<2, 1>>}
GraphWeights == {<<-1, 1>>, <<0, 1>>, <<2, 1>>}
RecWeights == {<<2, 1>>}
Levels == {<<1, 1>>}
ModifiedLevels == {<<0, 1>>, <<3, 2>>}

PairLeq(p, q) ==
    \/ GeneIndex(p[1]) < GeneIndex(q[1])
    \/ GeneIndex(p[1]) = GeneIndex(q[1]) /\ GeneIndex(p[2]) <= GeneIndex(q[2])

RECURSIVE EdgeSeq(_, _)
\* the edge list naming the pairs of E, in the order of the gene names, weighted by w
EdgeSeq(E, w) ==
    IF E = {} THEN <<>>
    ELSE LET p == CHOOSE x \in E : \A y \in E : PairLeq(x, y)
         IN  <<<<p[1], p[2], w[p]>>>> \o EdgeSeq(E \ {p}, w)

\* every edge list of at most k edges over Genes without a repeated ordered pair
EdgeLists(k, W) ==
    UNION {{EdgeSeq(E, w) : w \in [E -> W]} :
             E \in {F \in SUBSET (Genes \X Genes) : Cardinality(F) <= k}}

\* every dict from some of the genes to a level
LevelDicts == UNION {[D -> Levels] : D \in SUBSET Genes}

\* the network and levels of the example run, lines 144-166
EDGES ==
    <<<<"1", "4", <<1, 1>>>>, <<"1", "5", <<3, 5>>>>, <<"1", "6", <<7, 10>>>>,
      <<"2", "4", <<1, 1>>>>, <<"3", "4", <<2, 5>>>>, <<"4", "3", <<3, 5>>>>,
      <<"4", "8", <<3, 10>>>>, <<"5", "6", <<1, 1>>>>, <<"6", "7", <<4, 5>>>>>>

INITIAL_LEVELS == [g \in {"1", "2", "3", "4", "5", "6", "7", "8"} |-> One]

--------------------------------------------------------------------------
(* compute_gene_effect. *)

\* dict.get(key, default)
DictGet(d, key, default) == IF key \in DOMAIN d THEN d[key] ELSE default

\* dict[key] = value
DictSet(d, key, value) == (key :> value) @@ d

\* the targets of the edges are not added
AllGeneNamesNoTargets(edges, levels) ==
    DOMAIN levels \cup {edges[i][1] : i \in DOMAIN edges}

\* lines 77-80
AllGeneNames(edges, levels) ==
    DOMAIN levels \cup {edges[i][1] : i \in DOMAIN edges}
                  \cup {edges[i][2] : i \in DOMAIN edges}

\* the baseline of the source is not subtracted
InitialShockNoBaseline(levels, source, modified) == modified

\* line 97
InitialShock(levels, source, modified) ==
    RSub(modified, DictGet(levels, source, Zero))

\* the source is not skipped
IsSourceNever(target, source) == FALSE

\* line 108: the loop skips the source gene
IsSource(target, source) == target = source

\* lines 118-133: the new level of target
NewLevel(levels, g, src_vid, target_vid, target, shock, maxd) ==
    LET total_influence_factor ==
            get_total_influence(g, src_vid, target_vid, One, maxd, 1)
        initial_level_target == DictGet(levels, target, Zero)
        change == RMul(shock, total_influence_factor)
    IN  RAdd(initial_level_target, change)

NoGraph == [vs |-> <<>>, es |-> <<>>]

\* the variables of the get_total_influence runs, unused by compute_gene_effect
InfluenceIdle ==
    /\ current_gene = NoVertex
    /\ target_gene = NoVertex
    /\ influence = <<>>
    /\ stack = <<>>
    /\ result = Zero

\* a call compute_gene_effect(edge_list, initial_levels, source_gene, modified_level,
\* max_depth).  The edge lists and the dicts are closed under renaming the genes, so
\* the source is taken to be the first gene; it may have no baseline and no edge.
Init ==
    /\ \/ /\ edge_list \in EdgeLists(MaxEdges, Weights)
          /\ initial_levels \in LevelDicts
          /\ source_gene = GeneOrder[1]
          /\ modified_level \in ModifiedLevels
          /\ max_depth \in -1..MaxCallDepth
       \/ /\ edge_list = EDGES
          /\ initial_levels = INITIAL_LEVELS
          /\ source_gene = "1"
          /\ modified_level = <<3, 2>>
          /\ max_depth = 2
    /\ all_gene_names = {}
    /\ G = NoGraph
    /\ initial_shock = Zero
    /\ new_levels = <<>>
    /\ source_vid = NoVertex
    /\ todo = {}
    /\ error = "none"
    /\ InfluenceIdle
    /\ pc = "start"

\* lines 76-94
BuildGraph ==
    /\ pc = "start"
    /\ all_gene_names' = AllGeneNames(edge_list, initial_levels)
    /\ G' = DictList(SetToSeq(all_gene_names'), edge_list)
    /\ pc' = "shock"
    /\ UNCHANGED <<edge_list, initial_levels, source_gene, modified_level, max_depth,
                   initial_shock, new_levels, source_vid, todo, error,
                   current_gene, target_gene, influence, stack, result>>

\* lines 96-101
InitResults ==
    /\ pc = "shock"
    /\ initial_shock' = InitialShock(initial_levels, source_gene, modified_level)
    /\ new_levels' = DictSet(initial_levels, source_gene, modified_level)
    /\ pc' = "find_source"
    /\ UNCHANGED <<edge_list, initial_levels, source_gene, modified_level, max_depth,
                   all_gene_names, G, source_vid, todo, error,
                   current_gene, target_gene, influence, stack, result>>

\* line 103: G.vs.find raises ValueError when no vertex has the name
FindSource ==
    /\ pc = "find_source"
    /\ source_vid' = VsFind(G, source_gene)
    /\ IF source_vid' = NoVertex
       THEN /\ error' = "ValueError"
            /\ pc' = "raised"
            /\ todo' = todo
       ELSE /\ error' = error
            /\ pc' = "loop"
            /\ todo' = all_gene_names
    /\ UNCHANGED <<edge_list, initial_levels, source_gene, modified_level, max_depth,
                   all_gene_names, G, initial_shock, new_levels,
                   current_gene, target_gene, influence, stack, result>>

\* lines 107-133: one iteration of the loop over all_gene_names (a set: any order).
\* The handler of line 113 names ig.InternalError, so the ValueError of a failed
\* lookup would leave the function.
LoopIteration ==
    /\ pc = "loop"
    /\ \E target \in todo :
         LET target_vid == VsFind(G, target)
         IN  /\ todo' = todo \ {target}
             /\ IF IsSource(target, source_gene)
                THEN UNCHANGED <<new_levels, error, pc>>
                ELSE IF target_vid = NoVertex
                THEN /\ error' = "ValueError"
                     /\ pc' = "raised"
                     /\ new_levels' = new_levels
                ELSE /\ new_levels' =
                          DictSet(new_levels, target,
                                  NewLevel(initial_levels, G, source_vid, target_vid,
                                           target, initial_shock, max_depth))
                     /\ UNCHANGED <<error, pc>>
    /\ UNCHANGED <<edge_list, initial_levels, source_gene, modified_level, max_depth,
                   all_gene_names, G, initial_shock, source_vid,
                   current_gene, target_gene, influence, stack, result>>

\* line 135
Return ==
    /\ pc = "loop"
    /\ todo = {}
    /\ pc' = "done"
    /\ UNCHANGED <<edge_list, initial_levels, source_gene, modified_level, max_depth,
                   all_gene_names, G, initial_shock, new_levels, source_vid, todo, error,
                   current_gene, target_gene, influence, stack, result>>

Next == BuildGraph \/ InitResults \/ FindSource \/ LoopIteration \/ Return

Spec == Init /\ [][Next]_vars

--------------------------------------------------------------------------
(* get_total_influence called on one graph with max_depth = 0, 1, 2, ...  *)
(* (the depth comparison of the long-term run, lines 189-201).             *)

\* the variables of compute_gene_effect, unused by the get_total_influence runs
EngineIdle ==
    /\ initial_levels = <<>>
    /\ source_gene = ""
    /\ modified_level = Zero
    /\ initial_shock = Zero
    /\ new_levels = <<>>
    /\ source_vid = NoVertex
    /\ todo = {}
    /\ error = "none"

EngineVars == <<initial_levels, source_gene, modified_level, initial_shock,
                new_levels, source_vid, todo, error>>

\* a graph over Genes; the edge lists are closed under renaming the genes, so the
\* walks start at the first gene and lead back to it or to the second gene
InitInfluence ==
    /\ edge_list \in EdgeLists(MaxGraphEdges, GraphWeights)
    /\ all_gene_names = Genes
    /\ G = DictList(SetToSeq(all_gene_names), edge_list)
    /\ current_gene = VsFind(G, GeneOrder[1])
    /\ target_gene \in {VsFind(G, GeneOrder[1]), VsFind(G, GeneOrder[2])}
    /\ max_depth = 0
    /\ influence = <<>>
    /\ stack = <<>>
    /\ result = Zero
    /\ EngineIdle
    /\ pc = "sweep"

\* the call of lines 118-125 with the next max_depth
CallAtNextDepth ==
    /\ pc = "sweep"
    /\ max_depth <= MaxDepth
    /\ result' = get_total_influence(G, current_gene, target_gene, One, max_depth, 1)
    /\ influence' = (max_depth :> result') @@ influence
    /\ max_depth' = max_depth + 1
    /\ UNCHANGED <<edge_list, all_gene_names, G, current_gene, target_gene, stack, pc>>
    /\ UNCHANGED EngineVars

NextInfluence == CallAtNextDepth

SpecInfluence == InitInfluence /\ [][NextInfluence]_vars

--------------------------------------------------------------------------
(* get_total_influence step by step: the call stack of the recursion.      *)
(* A frame holds the arguments and locals of one call; at = "entry" before *)
(* line 23 has run, "loop" while the for loop of line 29 runs.             *)

Frame(cur, product, depth) ==
    [current_gene |-> cur, current_path_product |-> product, current_depth |-> depth,
     total_influence |-> Zero, nbrs |-> <<>>, at |-> "entry"]

Top == stack[Len(stack)]

InitRec ==
    /\ edge_list \in EdgeLists(MaxGraphEdges, RecWeights)
    /\ all_gene_names = Genes
    /\ G = DictList(SetToSeq(all_gene_names), edge_list)
    /\ current_gene = VsFind(G, GeneOrder[1])
    /\ target_gene \in {VsFind(G, GeneOrder[1]), VsFind(G, GeneOrder[2])}
    /\ max_depth \in -1..MaxRecDepth
    /\ influence = <<>>
    /\ stack = <<Frame(current_gene, One, 1)>>
    /\ result = Zero
    /\ EngineIdle
    /\ pc = "running"

RecUnchanged ==
    /\ UNCHANGED <<edge_list, all_gene_names, G, current_gene, target_gene,
                   max_depth, influence>>
    /\ UNCHANGED EngineVars

\* a return of value v: to the caller's line 41, or out of the top-level call
ReturnValue(v) ==
    IF Len(stack) = 1
    THEN /\ stack' = <<>>
         /\ result' = v
         /\ pc' = "done"
    ELSE /\ stack' = [SubSeq(stack, 1, Len(stack) - 1) EXCEPT
                         ![Len(stack) - 1].total_influence = AddDeeper(@, v)]
         /\ UNCHANGED <<result, pc>>

\* lines 23-24
RecBaseCase ==
    /\ pc = "running"
    /\ Top.at = "entry"
    /\ DepthExhausted(Top.current_depth, max_depth)
    /\ ReturnValue(Zero)
    /\ RecUnchanged

\* lines 26-29: the loop starts
RecEnterLoop ==
    /\ pc = "running"
    /\ Top.at = "entry"
    /\ ~DepthExhausted(Top.current_depth, max_depth)
    /\ stack' = [stack EXCEPT ![Len(stack)].total_influence = Zero,
                              ![Len(stack)].nbrs = successors(G, Top.current_gene),
                              ![Len(stack)].at = "loop"]
    /\ UNCHANGED <<result, pc>>
    /\ RecUnchanged

\* lines 29-48: one iteration, up to the recursive call it makes
RecIterate ==
    /\ pc = "running"
    /\ Top.at = "loop"
    /\ Top.nbrs # <<>>
    /\ LET neighbor_gene == Head(Top.nbrs)
           weight == G.es[get_eid(G, Top.current_gene, neighbor_gene)].weight
           new_path_product == NewPathProduct(Top.current_path_product, weight)
       IN  stack' = Append(
               [stack EXCEPT ![Len(stack)].total_influence =
                                  RAdd(@, TargetHit(neighbor_gene, target_gene,
                                                    new_path_product)),
                             ![Len(stack)].nbrs = Tail(@)],
               Frame(neighbor_gene, new_path_product, Top.current_depth + 1))
    /\ UNCHANGED <<result, pc>>
    /\ RecUnchanged

\* line 50
RecReturn ==
    /\ pc = "running"
    /\ Top.at = "loop"
    /\ Top.nbrs = <<>>
    /\ ReturnValue(Top.total_influence)
    /\ RecUnchanged

NextRec == RecBaseCase \/ RecEnterLoop \/ RecIterate \/ RecReturn

\* the interpreter always takes the next step of a running call
SpecRec == InitRec /\ [][NextRec]_vars /\ WF_vars(NextRec)

\* the step-by-step run returns what the recursive function returns
RecursionAgrees ==
    pc = "done" => result = get_total_influence(G, current_gene, target_gene,
                                                One, max_depth, 1)

--------------------------------------------------------------------------
(* Definitions used to state the properties.                               *)

RECURSIVE RSum(_, _)
\* the sum of f over the set S
RSum(f, S) ==
    IF S = {} THEN Zero
    ELSE LET x == CHOOSE y \in S : TRUE
         IN  RAdd(f[x], RSum(f, S \ {x}))

\* the weighted adjacency matrix W of an edge list, indexed by gene names
AdjacencyMatrix(edges, names) ==
    [p \in names \X names |->
        RSum([i \in DOMAIN edges |-> edges[i][3]],
             {i \in DOMAIN edges : edges[i][1] = p[1] /\ edges[i][2] = p[2]})]

\* f itself; the comparison makes TLC tabulate the function once instead of
\* evaluating its expression at every application
Tabulated(f) == IF f = f THEN f ELSE f

RECURSIVE PowerRows(_, _, _, _)
\* for k >= 1, <<row a of W^k, row a of W^1 + ... + W^k>>, from W^k = W^(k-1) W
PowerRows(W, a, k, names) ==
    IF k = 1
    THEN LET row == Tabulated([b \in names |-> W[<<a, b>>]])
         IN  <<row, row>>
    ELSE LET prev == PowerRows(W, a, k - 1, names)
             row == Tabulated([b \in names |->
                        RSum([m \in names |-> RMul(prev[1][m], W[<<m, b>>])], names)])
         IN  <<row, Tabulated([b \in names |-> RAdd(prev[2][b], row[b])])>>

\* the (a, b) entry of W^1 + ... + W^k
WalkSum(W, a, b, k, names) ==
    IF k <= 0 THEN Zero ELSE PowerRows(Tabulated(W), a, k, names)[2][b]

HasEdge(g, v, u) == EdgeIds(g, v, u) # {}

EdgeWeight(g, v, u) == g.es[get_eid(g, v, u)].weight

AllWeightsNonNegative(g) == \A i \in DOMAIN g.es : RLeq(Zero, g.es[i].weight)

\* an edge a walk may use: any edge, or only the edges of positive weight
Usable(g, v, u, positive) ==
    HasEdge(g, v, u) /\ (positive => RLess(Zero, EdgeWeight(g, v, u)))

RECURSIVE WalkOfLength(_, _, _, _, _)
\* some walk of exactly k usable edges leads from v to u
WalkOfLength(g, v, u, k, positive) ==
    IF k = 0 THEN v = u
    ELSE \E w \in DOMAIN g.vs :
            Usable(g, v, w, positive) /\ WalkOfLength(g, w, u, k - 1, positive)

\* the cycles of c distinct vertices, each as the sequence of its vertices
SimpleCycles(g, c) ==
    {s \in [1..c -> DOMAIN g.vs] :
        /\ \A i, j \in 1..c : i # j => s[i] # s[j]
        /\ \A i \in 1..c : HasEdge(g, s[i], s[IF i = c THEN 1 ELSE i + 1])}

RECURSIVE CycleGainFrom(_, _, _)
CycleGainFrom(g, s, i) ==
    IF i > Len(s) THEN One
    ELSE RMul(EdgeWeight(g, s[i], s[IF i = Len(s) THEN 1 ELSE i + 1]),
              CycleGainFrom(g, s, i + 1))

\* the product of the edge weights around the cycle s
CycleGain(g, s) == CycleGainFrom(g, s, 1)

\* the lengths a + Len(s) + b of the walks that lead from v to a vertex of the cycle s
\* in a edges, go once around s, and lead on to u in b edges
ThroughLengths(g, v, u, s, positive) ==
    UNION {{a + Len(s) + b :
               a \in {x \in 0..Len(g.vs) : WalkOfLength(g, v, s[i], x, positive)},
               b \in {y \in 0..Len(g.vs) : WalkOfLength(g, s[i], u, y, positive)}} :
             i \in DOMAIN s}

Min(S) == CHOOSE x \in S : \A y \in S : x <= y

\* the cycles of gain >= 1 that lie on a walk from v to u
GainCycles(g, v, u, positive) ==
    {s \in UNION {SimpleCycles(g, c) : c \in 1..Len(g.vs)} :
        /\ RLeq(One, CycleGain(g, s))
        /\ ThroughLengths(g, v, u, s, positive) # {}}

Baseline(name) == DictGet(initial_levels, name, Zero)

EdgeEndpoints == {edge_list[i][1] : i \in DOMAIN edge_list}
                 \cup {edge_list[i][2] : i \in DOMAIN edge_list}

Returned == pc = "done"

\* the max_depth of the latest call of the sweep, whose value is influence[LastDepth]
LastDepth == max_depth - 1

--------------------------------------------------------------------------
(* Properties of get_total_influence.                                      *)

\* C1: for max_depth >= 1 the value returned by
\* get_total_influence(G, current, target, 1, max_depth, 1) is the (current, target)
\* entry of W^1 + ... + W^max_depth, the sum over all walks of 1..max_depth edges of
\* the product of their weights.  (Stated of the call that has just returned; the
\* sweep makes every max_depth of 0..MaxDepth the latest one.)
C1_WalkSum ==
    LastDepth >= 1 =>
        influence[LastDepth] = WalkSum(AdjacencyMatrix(edge_list, all_gene_names),
                                       G.vs[current_gene], G.vs[target_gene],
                                       LastDepth, all_gene_names)

\* C1 witness: a walk reaches the target, passes through it around a loop on the target
\* and reaches it again, and the call of depth 3 has returned the sum of such walks.
C1_Witness ==
    /\ 3 \in DOMAIN influence
    /\ HasEdge(G, target_gene, target_gene)
    /\ HasEdge(G, current_gene, target_gene)
    /\ current_gene # target_gene
    /\ influence[3] # influence[1]
    /\ influence[3] # influence[2]

\* C8 as stated: a cycle of gain >= 1 on a walk from the source to the target, weights
\* of any sign; d < d', d' - d at least the cycle length, d' at least the length of the
\* shortest walk through the cycle: the influence at d' is strictly greater than at d.
\* (d' is the max_depth of the call that has just returned.)
C8_AnySign ==
    \A s \in GainCycles(G, current_gene, target_gene, FALSE) :
        LET shortest == Min(ThroughLengths(G, current_gene, target_gene, s, FALSE))
        IN  \A d \in DOMAIN influence :
                (d < LastDepth /\ LastDepth - d >= Len(s) /\ LastDepth >= shortest)
                => RLess(influence[d], influence[LastDepth])

\* C8 amended: the same, for graphs whose weights are all >= 0 and walks through the
\* cycle that use only edges of weight > 0.
C8_NonNegative ==
    AllWeightsNonNegative(G) =>
    \A s \in GainCycles(G, current_gene, target_gene, TRUE) :
        LET shortest == Min(ThroughLengths(G, current_gene, target_gene, s, TRUE))
        IN  \A d \in DOMAIN influence :
                (d < LastDepth /\ LastDepth - d >= Len(s) /\ LastDepth >= shortest)
                => RLess(influence[d], influence[LastDepth])

\* C8 witness: non-negative weights, a cycle of gain >= 1 away from the source on a
\* walk to the target, and two depths the amended claim compares.
C8_Witness ==
    /\ AllWeightsNonNegative(G)
    /\ \E d, e \in DOMAIN influence :
         \E s \in GainCycles(G, current_gene, target_gene, TRUE) :
            /\ \A i \in DOMAIN s : s[i] # current_gene
            /\ d < e /\ e - d >= Len(s) /\ d >= 1
            /\ e >= Min(ThroughLengths(G, current_gene, target_gene, s, TRUE))
            /\ RLess(influence[d], influence[e])

\* C9: with all weights >= 0, get_total_influence at max_depth d is at most its value
\* at max_depth d + 1.
C9_Monotone ==
    AllWeightsNonNegative(G) =>
    \A d \in DOMAIN influence :
        d + 1 \in DOMAIN influence => RLeq(influence[d], influence[d + 1])

\* C9 witness: non-negative weights on a graph with a cycle, and a depth at which the
\* influence grows.
C9_Witness ==
    /\ AllWeightsNonNegative(G)
    /\ \E c \in 1..Len(G.vs) : SimpleCycles(G, c) # {}
    /\ \E d \in DOMAIN influence :
         d >= 2 /\ d + 1 \in DOMAIN influence /\ RLess(influence[d], influence[d + 1])

\* the call of every frame on the stack is within one level of max_depth
DepthBounded ==
    max_depth >= 0 =>
    \A i \in DOMAIN stack : stack[i].current_depth <= max_depth + 1

\* C7: get_total_influence started at current_depth = 1 returns, and for max_depth >= 0
\* no call is reached with current_depth above max_depth + 1.
C7_Terminates == <>(pc = "done") /\ []DepthBounded

\* C7 witness: on a graph with a loop the recursion has gone round the loop down to
\* the call at current_depth = max_depth + 1, the one the depth test stops.
C7_Witness ==
    /\ max_depth = MaxRecDepth
    /\ Len(stack) = max_depth + 1
    /\ Top.current_depth = max_depth + 1
    /\ \A i \in DOMAIN stack : stack[i].current_gene = current_gene

--------------------------------------------------------------------------
(* Properties of compute_gene_effect.                                      *)

\* C2: the returned level of every vertex t other than the source is
\* baseline(t) + (modified_level - baseline(source)) * influence(source, t), with
\* influence(source, t) = get_total_influence(G, source, t, 1, max_depth, 1).
C2_ShockLinearity ==
    Returned =>
    \A t \in all_gene_names \ {source_gene} :
        new_levels[t] =
            RAdd(Baseline(t),
                 RMul(RSub(modified_level, Baseline(source_gene)),
                      get_total_influence(G, VsFind(G, source_gene), VsFind(G, t),
                                          One, max_depth, 1)))

\* C2 witness: a returned level that differs from its baseline, with a source that
\* has a baseline.
C2_Witness ==
    /\ Returned
    /\ source_gene \in DOMAIN initial_levels
    /\ \E t \in all_gene_names \ {source_gene} : new_levels[t] # Baseline(t)

\* C3: the example run returns 4 -> 1.5, 3 -> 1.3, 8 -> 1.15, 5 -> 1.3, 6 -> 1.65,
\* 7 -> 1.28, 2 -> 1.0 and 1 -> 1.5.
C3_Example ==
    (/\ Returned
     /\ edge_list = EDGES
     /\ initial_levels = INITIAL_LEVELS
     /\ source_gene = "1"
     /\ modified_level = <<3, 2>>
     /\ max_depth = 2)
    => new_levels = [g \in DOMAIN INITIAL_LEVELS |->
                        CASE g = "1" -> <<3, 2>>
                          [] g = "2" -> <<1, 1>>
                          [] g = "3" -> <<13, 10>>
                          [] g = "4" -> <<3, 2>>
                          [] g = "5" -> <<13, 10>>
                          [] g = "6" -> <<33, 20>>
                          [] g = "7" -> <<32, 25>>
                          [] g = "8" -> <<23, 20>>]

\* C3 witness: the example run has returned.
C3_Witness ==
    /\ Returned
    /\ edge_list = EDGES
    /\ initial_levels = INITIAL_LEVELS
    /\ max_depth = 2

\* C4: a source gene without a baseline never makes compute_gene_effect fail, and the
\* shock is modified_level - 0.0.
C4_MissingSourceBaseline ==
    source_gene \notin DOMAIN initial_levels =>
        /\ pc # "raised"
        /\ pc \in {"find_source", "loop", "done"} => initial_shock = modified_level

\* C5: the keys of the returned dict are the names of initial_levels, the endpoints of
\* the edges and the source gene.
C5_KeySet ==
    Returned =>
    DOMAIN new_levels = DOMAIN initial_levels \cup EdgeEndpoints \cup {source_gene}

\* C5 witness: a returned dict with a gene that is an edge endpoint only.
C5_Witness ==
    /\ Returned
    /\ \E name \in DOMAIN new_levels :
         name \notin DOMAIN initial_levels /\ name # source_gene

\* C6: with max_depth <= 0 every influence is 0.0, compute_gene_effect does not raise
\* and returns every gene but the source at its baseline.
C6_NoPropagation ==
    max_depth <= 0 =>
        /\ pc # "raised"
        /\ \A v, u \in DOMAIN G.vs :
              get_total_influence(G, v, u, One, max_depth, 1) = Zero
        /\ Returned =>
              \A t \in DOMAIN new_levels \ {source_gene} : new_levels[t] = Baseline(t)

\* C10: the returned level of the source gene is modified_level.
C10_SourceForced ==
    Returned => new_levels[source_gene] = modified_level

\* C10 witness: a run has returned on a graph where walks lead from the source back to
\* the source with a non-zero influence, under a non-zero shock.
C10_Witness ==
    /\ Returned
    /\ initial_shock # Zero
    /\ get_total_influence(G, source_vid, source_vid, One, max_depth, 1) # Zero

==========================================================================
